---- MODULE Spec2Model ----
(***************************************************************************)
(* Model of the forecasting firmware gru_forecasting.ino: setup(), loop(), *)
(* addReading() and runForecast(), with the BME280 sensor and the          *)
(* MicroTFLite engine (ModelInit / ModelSetInput / ModelRunInference /     *)
(* ModelGetOutput) as external collaborators whose results are inputs.     *)
(*                                                                         *)
(* Numbers.  A float is the IEEE-754 single-precision number the ESP32     *)
(* computes with, modelled by the integer sg * (E * 2^23 + F) of its bit   *)
(* pattern: sign sg, biased exponent E, fraction F.  The order of these    *)
(* integers is the order of the floats, 0 is 0.0, and a magnitude above    *)
(* 0x7F800000 is a not-a-number.  +, -, * and / are computed exactly and   *)
(* rounded to the nearest float, ties to even, one rounding per            *)
(* operation, except that the compiler may contract (a * b) + c into one   *)
(* fused multiply-add with a single rounding: whether the build does is    *)
(* the variable `fused`, chosen at the start and never changed.  A         *)
(* comparison with a decimal literal of the code (a double) is done        *)
(* exactly on the rationals.  Not-a-number propagates through              *)
(* arithmetic and every ordered comparison with it is false.  The values   *)
(* of the program are normal floats; subnormals, infinities and the sign   *)
(* of zero are outside the model.                                          *)
(* millis() is a 32-bit unsigned counter, kept as two 16-bit limbs         *)
(* <<hi, lo>> with arithmetic modulo 2^32.                                 *)
(***************************************************************************)
EXTENDS Integers, Sequences, FiniteSets

\* ------------------------------------------------------------- bounds
\* loop() invocations explored after setup().
MaxLoops == 2
\* Irregular inputs per run: a sensor value that is not-a-number, a loop()
\* check exactly one period or three periods after the last, a millis()
\* that advances between the two calls of one cycle.
MaxFaults == 1
\* addReading calls explored when the functions are driven directly.
MaxReadings == 36

\* ---------------------------------------------------------- constants
HISTORY_STEPS == 30
PREDICT_STEPS == 60
FEATURES == 3
PERIOD == 60000

\* MEANS[] = { 25.8489, 71.6869, 1014.3396 } and
\* STDS[] = { 1.8326, 8.2414, 1.5094 } as floats (index 0 temperature,
\* 1 humidity, 2 pressure).
MEANS == [f \in 0..2 |-> <<1104071308, 1116692401, 1149081020>>[f + 1]]
STDS == [f \in 0..2 |-> <<1072337571, 1090772166, 1069626373>>[f + 1]]

\* prefillData[30][3] of setup(), each literal as the float it is stored as.
prefillData ==
    <<
       <<1103833334, 1117200004, 1149030538>>, <<1103685642, 1117125542, 1149030446>>,
       <<1103559813, 1117233113, 1149030706>>, <<1103496059, 1117277402, 1149030461>>,
       <<1103432253, 1117321691, 1149030216>>, <<1103406039, 1117381945, 1149029709>>,
       <<1103416525, 1117401789, 1149029637>>, <<1103424389, 1117434046, 1149029623>>,
       <<1103438807, 1117415709, 1149029622>>, <<1103450604, 1117362048, 1149029822>>,
       <<1103481170, 1117368536, 1149029443>>, <<1103533179, 1117331390, 1149029940>>,
       <<1103531868, 1117309501, 1149030074>>, <<1103521382, 1117279237, 1149029478>>,
       <<1103565947, 1117220543, 1149029845>>, <<1103573811, 1117218813, 1149030179>>,
       <<1103600026, 1117199270, 1149030130>>, <<1103594783, 1117168442, 1149030174>>,
       <<1103613133, 1117199231, 1149030084>>, <<1103634996, 1117207174, 1149029084>>,
       <<1103618376, 1117152831, 1149029042>>, <<1103598715, 1117167170, 1149029368>>,
       <<1103591270, 1117193765, 1149029374>>, <<1103613133, 1117171260, 1149029361>>,
       <<1103570298, 1117131781, 1149029302>>, <<1103542354, 1117105960, 1149029496>>,
       <<1103560704, 1117151743, 1149029530>>, <<1103570298, 1117179006, 1149029238>>,
       <<1103570298, 1117199493, 1149029325>>, <<1103576433, 1117253757, 1149029079>>
    >>

\* ------------------------------------------------------ float arithmetic
\* 2^23: the weight of the exponent field, and the hidden bit of a
\* significand.
Hidden == 8388608
\* The bit pattern of +infinity, 0x7F800000, and the not-a-number the
\* sensor library and the arithmetic produce, 0x7FC00000.
Inf == 2139095040
NaN == 2143289344

isnan(x) == x > Inf \/ x < -Inf

Abs(x) == IF x < 0 THEN -x ELSE x

Sgn(x) == IF x < 0 THEN -1 ELSE 1

\* A float x # 0 is Sgn(x) * Mant(x) * 2^Exp(x), Mant(x) in [2^23, 2^24).
Mant(x) == (Abs(x) % Hidden) + Hidden

Exp(x) == (Abs(x) \div Hidden) - 150

\* The number of bits of s >= 0.
BitLen(s) ==
    IF s >= 67108864
    THEN (IF s >= 268435456 THEN 29 ELSE IF s >= 134217728 THEN 28 ELSE 27)
    ELSE IF s >= 16777216 THEN (IF s >= 33554432 THEN 26 ELSE 25)
    ELSE CHOOSE n \in 0..24 : s < 2^n /\ (n = 0 \/ s >= 2^(n - 1))

\* S with its last bit set when bits were dropped below it (sticky bit).
Jam(S, sticky) == IF sticky /\ S % 2 = 0 THEN S + 1 ELSE S

\* The float nearest to sg * S * 2^e, ties to even.
RoundPack(sg, S, e) ==
    IF S = 0 THEN 0
    ELSE LET n == BitLen(S)
         IN  IF n <= 24
             THEN sg * ((e - (24 - n) + 149) * Hidden + S * 2^(24 - n))
             ELSE LET sh == n - 24
                      m == S \div 2^sh
                      rem == S % 2^sh
                      half == 2^(sh - 1)
                      up == IF rem > half \/ (rem = half /\ m % 2 = 1)
                            THEN 1 ELSE 0
                  IN  sg * ((e + sh + 149) * Hidden + m + up)

\* A wide integer as a sequence of 24-bit limbs, least significant first.
Radix == 16777216

Limb24(N, k) == IF k >= 0 /\ k < Len(N) THEN N[k + 1] ELSE 0

\* Bits p .. p + 23 of N (p may be negative or past the end).
Extract(N, p) ==
    (Limb24(N, p \div 24) \div 2^(p % 24))
        + (Limb24(N, (p \div 24) + 1) % 2^(p % 24)) * 2^(24 - (p % 24))

\* Whether N has a bit set below bit p.
LowNonzero(N, p) ==
    \/ \E k \in 1..Len(N) : k - 1 < p \div 24 /\ N[k] # 0
    \/ Limb24(N, p \div 24) % 2^(p % 24) # 0

\* The exact 48-bit product of the significands of a and b.
Prod(a, b) ==
    LET h1 == Mant(a) \div 4096
        l1 == Mant(a) % 4096
        h2 == Mant(b) \div 4096
        l2 == Mant(b) % 4096
        mid == h1 * l2 + l1 * h2
        low == (mid % 4096) * 4096 + l1 * l2
    IN  <<low % Radix, h1 * h2 + mid \div 4096 + low \div Radix>>

\* a * b: the product of the significands, rounded.
FMul(a, b) ==
    IF isnan(a) \/ isnan(b) THEN NaN
    ELSE IF a = 0 \/ b = 0 THEN 0
    ELSE LET lo == Prod(a, b)[1]
             hi == Prod(a, b)[2]
         IN  RoundPack(Sgn(a) * Sgn(b),
                       Jam(hi * 16 + lo \div 1048576, lo % 1048576 # 0),
                       Exp(a) + Exp(b) + 20)

\* N * 2^s cut to the three limbs of a 72-bit window.
Align(N, s) == [k \in 1..3 |-> Extract(N, 24 * (k - 1) - s)]

Add3(x, y) ==
    LET s0 == x[1] + y[1]
        s1 == x[2] + y[2] + s0 \div Radix
    IN  <<s0 % Radix, s1 % Radix, x[3] + y[3] + s1 \div Radix>>

\* x - y - extra for x > y.
Sub3(x, y, extra) ==
    LET d0 == x[1] - y[1] - extra
        d1 == x[2] - y[2] - (IF d0 < 0 THEN 1 ELSE 0)
    IN  <<d0 % Radix, d1 % Radix, x[3] - y[3] - (IF d1 < 0 THEN 1 ELSE 0)>>

Less3(x, y) ==
    \/ x[3] < y[3]
    \/ x[3] = y[3] /\ (x[2] < y[2] \/ (x[2] = y[2] /\ x[1] < y[1]))

BitLen3(N) ==
    IF N[3] # 0 THEN 48 + BitLen(N[3])
    ELSE IF N[2] # 0 THEN 24 + BitLen(N[2])
    ELSE BitLen(N[1])

\* The float nearest to sg * (N + a fraction when st) * 2^e, for three
\* limbs N.
Round3(sg, N, st, e) ==
    LET n == BitLen3(N)
    IN  IF n <= 27 THEN RoundPack(sg, Jam(N[2] * Radix + N[1], st), e)
        ELSE RoundPack(sg,
                       Jam(Extract(N, n - 27) + Extract(N, n - 3) * Radix,
                           st \/ LowNonzero(N, n - 27)),
                       e + n - 27)

\* a * b + c with one rounding (the MADD.S of the ESP32-S3): the exact
\* product and c are placed in a 72-bit window below the larger of the
\* two, what falls below the window is kept as a sticky bit, and the
\* exact sum or difference is rounded.
FMA(a, b, c) ==
    IF isnan(a) \/ isnan(b) \/ isnan(c) THEN NaN
    ELSE IF a = 0 \/ b = 0 THEN c
    ELSE IF c = 0 THEN FMul(a, b)
    ELSE LET eP == Exp(a) + Exp(b)
             eC == Exp(c)
             wb == (IF eP + 48 > eC + 24 THEN eP + 48 ELSE eC + 24) - 71
             P == Prod(a, b)
             X == Align(P, eP - wb)
             Y == Align(<<Mant(c)>>, eC - wb)
             st == LowNonzero(P, wb - eP) \/ LowNonzero(<<Mant(c)>>, wb - eC)
             borrow == IF st THEN 1 ELSE 0
         IN  IF Sgn(a) * Sgn(b) = Sgn(c) THEN Round3(Sgn(c), Add3(X, Y), st, wb)
             ELSE IF Less3(X, Y) THEN Round3(Sgn(c), Sub3(Y, X, borrow), st, wb)
             ELSE Round3(-Sgn(c), Sub3(X, Y, borrow), st, wb)

\* One step of long division by d: 7 more quotient bits.  qr = <<q, r>>.
DivStep(qr, d) == <<qr[1] * 128 + (qr[2] * 128) \div d, (qr[2] * 128) % d>>

\* a / b: 28 quotient bits of the significands and the remainder as the
\* sticky bit, then rounded.  x / 0 is outside the values of the program.
FDiv(a, b) ==
    IF isnan(a) \/ isnan(b) \/ b = 0 THEN NaN
    ELSE IF a = 0 THEN 0
    ELSE LET d == Mant(b)
             qr == DivStep(DivStep(DivStep(DivStep(
                       <<Mant(a) \div d, Mant(a) % d>>, d), d), d), d)
         IN  RoundPack(Sgn(a) * Sgn(b), Jam(qr[1], qr[2] # 0),
                       Exp(a) - Exp(b) - 28)

\* a + b: the smaller operand is shifted to the exponent of the larger,
\* with three guard bits and a sticky bit, then the sum is rounded.
FAdd(a, b) ==
    IF isnan(a) \/ isnan(b) THEN NaN
    ELSE IF a = 0 THEN b
    ELSE IF b = 0 THEN a
    ELSE LET big == IF Abs(a) >= Abs(b) THEN a ELSE b
             small == IF Abs(a) >= Abs(b) THEN b ELSE a
             d == Exp(big) - Exp(small)
             Mb == Mant(big) * 8
             Ms == Jam((Mant(small) * 8) \div 2^d, (Mant(small) * 8) % 2^d # 0)
         IN  IF d > 26 THEN big
             ELSE RoundPack(Sgn(big),
                            IF Sgn(big) = Sgn(small) THEN Mb + Ms ELSE Mb - Ms,
                            Exp(big) - 3)

FSub(a, b) == IF isnan(b) THEN NaN ELSE FAdd(a, -b)

\* -1, 0 or 1 as |x| is below, equal to or above n / den, for a float
\* x # 0 and integers n, den > 0: |x| = Mant(x) * 2^Exp(x).
MagCmp(x, n, den) ==
    IF Exp(x) >= 0 THEN 1
    ELSE IF Exp(x) < -30 THEN -1
    ELSE LET q == (Mant(x) * den) \div 2^(-Exp(x))
             r == (Mant(x) * den) % 2^(-Exp(x))
         IN  IF q > n \/ (q = n /\ r > 0) THEN 1
             ELSE IF q = n /\ r = 0 THEN 0
             ELSE -1

\* x < num/den and x > num/den for a float x and a decimal literal of the
\* code (-0.8 is num = -8, den = 10), compared exactly.
LtLit(x, num, den) ==
    IF isnan(x) THEN FALSE
    ELSE IF x = 0 THEN 0 < num
    ELSE IF x < 0 /\ num >= 0 THEN TRUE
    ELSE IF x > 0 /\ num <= 0 THEN FALSE
    ELSE IF x < 0 THEN MagCmp(x, -num, den) > 0
    ELSE MagCmp(x, num, den) < 0

GtLit(x, num, den) ==
    IF isnan(x) THEN FALSE
    ELSE IF x = 0 THEN 0 > num
    ELSE IF x < 0 /\ num >= 0 THEN FALSE
    ELSE IF x > 0 /\ num <= 0 THEN TRUE
    ELSE IF x < 0 THEN MagCmp(x, -num, den) < 0
    ELSE MagCmp(x, num, den) > 0

\* a > b for two floats.
FGt(a, b) == ~isnan(a) /\ ~isnan(b) /\ a > b

\* ------------------------------------------------------ millis(), 32 bit
Limb == 65536

U32Add(a, d) ==
    <<(a[1] + d[1] + (a[2] + d[2]) \div Limb) % Limb, (a[2] + d[2]) % Limb>>

\* Faulty variant: a difference that does not wrap: 0 when the counter
\* reads less than the stamp.
U32Sub_NoWrap(a, b) ==
    IF a[1] < b[1] \/ (a[1] = b[1] /\ a[2] < b[2]) THEN <<0, 0>>
    ELSE <<a[1] - b[1] - (IF a[2] < b[2] THEN 1 ELSE 0), (a[2] - b[2]) % Limb>>

U32Sub(a, b) ==
    <<(a[1] - b[1] - (IF a[2] < b[2] THEN 1 ELSE 0)) % Limb, (a[2] - b[2]) % Limb>>

\* d > 60000, the test of loop().
ExceedsPeriod(d) == d[1] > 0 \/ d[2] > PERIOD

\* --------------------------------------------------- the history buffer
\* historyBuffer, bufferHead, bufferFilled as one value.
Ring(hb, head, filled) ==
    [historyBuffer |-> hb, bufferHead |-> head, bufferFilled |-> filled]

\* float historyBuffer[HISTORY_STEPS][FEATURES], zero-initialised global.
EmptyRing ==
    Ring([i \in 0..(HISTORY_STEPS - 1) |-> [f \in 0..(FEATURES - 1) |-> 0]],
         0, FALSE)

\* Faulty variant: the head wraps one insert late.
NextHead_Late(head) == IF head + 1 > HISTORY_STEPS THEN 0 ELSE head + 1

\* The head after one more reading, and whether it wrapped.
NextHead(head) == IF head + 1 >= HISTORY_STEPS THEN 0 ELSE head + 1

addReading(r, t, h, p) ==
    Ring([r.historyBuffer EXCEPT ![r.bufferHead] =
              [f \in 0..(FEATURES - 1) |-> <<t, h, p>>[f + 1]]],
         NextHead(r.bufferHead),
         r.bufferFilled \/ r.bufferHead + 1 >= HISTORY_STEPS)

\* Faulty variant: the prefill loop stops after 29 readings.
RECURSIVE Prefill_Short(_, _)
Prefill_Short(r, i) ==
    IF i > 29 THEN r
    ELSE Prefill_Short(addReading(r, prefillData[i][1], prefillData[i][2],
                                  prefillData[i][3]), i + 1)

\* for (i = 0; i < 30; i++) addReading(prefillData[i]...), from reading i on.
RECURSIVE Prefill(_, _)
Prefill(r, i) ==
    IF i > 30 THEN r
    ELSE Prefill(addReading(r, prefillData[i][1], prefillData[i][2],
                            prefillData[i][3]), i + 1)

\* ------------------------------------------------------------ runForecast
\* Faulty variant: the window always starts at physical slot 0.
ReadIdx_FromZero(r) == 0

\* int readIdx = bufferHead; if (!bufferFilled) readIdx = 0;
ReadIdx(r) == IF ~r.bufferFilled THEN 0 ELSE r.bufferHead

\* int bufPos = (readIdx + i) % HISTORY_STEPS;
BufPos(r, i) == (ReadIdx(r) + i) % HISTORY_STEPS

\* (x - MEANS[f]) / STDS[f]
Standardize(x, f) == FDiv(FSub(x, MEANS[f]), STDS[f])

\* Whether the build contracts (out * STDS[f]) + MEANS[f] into a fused
\* multiply-add.
VARIABLE fused

\* (out * STDS[f]) + MEANS[f]: the product rounded and then the sum, or,
\* in a build that contracts the expression, the exact product added and
\* rounded once.
Denormalize(out, f) ==
    IF fused THEN FMA(out, STDS[f], MEANS[f])
    ELSE FAdd(FMul(out, STDS[f]), MEANS[f])

\* The window the input loop reads: reading i = 0..N-1, oldest first.
Window(r) == [i \in 1..HISTORY_STEPS |-> r.historyBuffer[BufPos(r, i - 1)]]

Call(op, idx, val) == [op |-> op, idx |-> idx, val |-> val]

\* Faulty variant: the input loop stops one time step early.
SetInputCalls_Short(r) ==
    [k \in 1..((HISTORY_STEPS - 1) * FEATURES) |->
        LET i == (k - 1) \div FEATURES
            f == (k - 1) % FEATURES
        IN  Call("ModelSetInput", i * FEATURES + f,
                 Standardize(r.historyBuffer[BufPos(r, i)][f], f))]

\* Faulty variant: the input tensor is written feature by feature
\* (column-major), index f * HISTORY_STEPS + i.
SetInputCalls_ColumnMajor(r) ==
    [k \in 1..(HISTORY_STEPS * FEATURES) |->
        LET i == (k - 1) \div FEATURES
            f == (k - 1) % FEATURES
        IN  Call("ModelSetInput", f * HISTORY_STEPS + i,
                 Standardize(r.historyBuffer[BufPos(r, i)][f], f))]

\* The 90 ModelSetInput calls of the input loop, in call order: for each
\* i, features 0, 1, 2 at index i * FEATURES + f.
SetInputCalls(r) ==
    [k \in 1..(HISTORY_STEPS * FEATURES) |->
        LET i == (k - 1) \div FEATURES
            f == (k - 1) % FEATURES
        IN  Call("ModelSetInput", i * FEATURES + f,
                 Standardize(r.historyBuffer[BufPos(r, i)][f], f))]

\* The 180 ModelGetOutput calls of the output loop, in call order.
GetOutputCalls(tout) ==
    [k \in 1..(PREDICT_STEPS * FEATURES) |->
        Call("ModelGetOutput", k - 1, tout[k - 1])]

\* Denormalized feature f of forecast step `step`.
Pred(tout, step, f) == Denormalize(tout[step * FEATURES + f], f)

\* Faulty variant: only the humidity of the last step is looked at.
MaxH_LastStep(tout) ==
    IF FGt(Pred(tout, PREDICT_STEPS - 1, 1), 0)
    THEN Pred(tout, PREDICT_STEPS - 1, 1) ELSE 0

\* float maxH = 0; ... if (predH > maxH) maxH = predH;  over steps 0..59:
\* the largest of 0 and the predicted humidities (a NaN never passes the
\* comparison).
MaxH(tout) ==
    LET hs == {0} \cup {h \in {Pred(tout, step, 1) :
                                    step \in 0..(PREDICT_STEPS - 1)} : ~isnan(h)}
    IN  CHOOSE m \in hs : \A x \in hs : x <= m

\* Faulty variant: the threshold of the README, -1.0 hPa.
StormWarning_OneHPa(pressureDelta) == LtLit(pressureDelta, -1, 1)

\* Rule 1: pressureDelta < -0.8
StormWarning(pressureDelta) == LtLit(pressureDelta, -8, 10)

\* Rule 2: pressureDelta < -0.3 && maxH > 85.0
RainLikely(pressureDelta, maxH) ==
    LtLit(pressureDelta, -3, 10) /\ GtLit(maxH, 85, 1)

\* Rule 3: futureT > 35.0, futureT < 5.0
HeatAlert(futureT) == GtLit(futureT, 35, 1)

FreezeAlert(futureT) == LtLit(futureT, 5, 1)

\* Faulty variant: a rise of exactly 0.5 hPa counts as rising.
Status_NonStrict(pressureDelta) ==
    IF ~LtLit(pressureDelta, 1, 2) /\ ~isnan(pressureDelta)
    THEN "STATUS_RISING" ELSE "STATUS_STABLE"

\* if (!badWeather) { if (pressureDelta > 0.5) ... else ... }
Status(pressureDelta) ==
    IF GtLit(pressureDelta, 1, 2) THEN "STATUS_RISING" ELSE "STATUS_STABLE"

\* Faulty variant: any alert, the heat and freeze ones included, keeps the
\* status line from being printed.
Decide_QuietOnAnyAlert(pressureDelta, maxH, futureT) ==
    LET storm == StormWarning(pressureDelta)
        rain == RainLikely(pressureDelta, maxH)
        anyAlert == storm \/ rain \/ HeatAlert(futureT) \/ FreezeAlert(futureT)
    IN  (IF storm THEN {"STORM_WARNING"} ELSE {})
        \cup (IF rain THEN {"RAIN_LIKELY"} ELSE {})
        \cup (IF HeatAlert(futureT) THEN {"HEAT_ALERT"} ELSE {})
        \cup (IF FreezeAlert(futureT) THEN {"FREEZE_ALERT"} ELSE {})
        \cup (IF ~anyAlert THEN {Status(pressureDelta)} ELSE {})

\* Faulty variant: the heat and freeze alerts are looked at only when
\* neither the storm nor the rain rule fired.
Decide_HeatInFairWeather(pressureDelta, maxH, futureT) ==
    LET storm == StormWarning(pressureDelta)
        rain == RainLikely(pressureDelta, maxH)
        badWeather == storm \/ rain
    IN  (IF storm THEN {"STORM_WARNING"} ELSE {})
        \cup (IF rain THEN {"RAIN_LIKELY"} ELSE {})
        \cup (IF ~badWeather /\ HeatAlert(futureT) THEN {"HEAT_ALERT"} ELSE {})
        \cup (IF ~badWeather /\ FreezeAlert(futureT) THEN {"FREEZE_ALERT"} ELSE {})
        \cup (IF ~badWeather THEN {Status(pressureDelta)} ELSE {})

\* Section 4 of runForecast: the lines printed, as a set of alert names.
Decide(pressureDelta, maxH, futureT) ==
    LET storm == StormWarning(pressureDelta)
        rain == RainLikely(pressureDelta, maxH)
        badWeather == storm \/ rain
    IN  (IF storm THEN {"STORM_WARNING"} ELSE {})
        \cup (IF rain THEN {"RAIN_LIKELY"} ELSE {})
        \cup (IF HeatAlert(futureT) THEN {"HEAT_ALERT"} ELSE {})
        \cup (IF FreezeAlert(futureT) THEN {"FREEZE_ALERT"} ELSE {})
        \cup (IF ~badWeather THEN {Status(pressureDelta)} ELSE {})

\* What a handler leaves behind for the observer: how it ended, the lines
\* of the decision engine, and the locals they were computed from.
Result(kind, alerts, currentP, futureP, futureT, maxH, pressureDelta) ==
    [kind |-> kind, alerts |-> alerts, currentP |-> currentP,
     futureP |-> futureP, futureT |-> futureT, maxH |-> maxH,
     pressureDelta |-> pressureDelta]

NoForecast(kind) == Result(kind, {}, 0, 0, 0, 0, 0)

\* if (!ModelRunInference()) { ...; return; }  The engine fills its output
\* tensor with `fc` when it succeeds and leaves it alone when it fails.
ModelRunInference(tout, ok, fc) == IF ok THEN fc ELSE tout

\* What runForecast leaves: the globals, the engine's output tensor, the
\* calls made and the report.
Outcome(r, tout, cs, res) ==
    [ring |-> r, tensorOut |-> tout, calls |-> cs, result |-> res]

\* Sections 3 and 4 of runForecast: read the 180 outputs, denormalize,
\* capture currentP (step 0), futureP and futureT (step 59) and maxH, and
\* decide.
Report(tout) ==
    LET currentP == Pred(tout, 0, 2)
        futureP == Pred(tout, 59, 2)
        futureT == Pred(tout, 59, 0)
        maxH == MaxH(tout)
        pressureDelta == FSub(futureP, currentP)
    IN  Result("reported", Decide(pressureDelta, maxH, futureT),
               currentP, futureP, futureT, maxH, pressureDelta)

RunCall(ok) == <<Call("ModelRunInference", 0, IF ok THEN 1 ELSE 0)>>

\* Faulty variant: the result of ModelRunInference is not tested.
runForecast_Unchecked(r, ins, tout, ok, fc) ==
    Outcome(r, ModelRunInference(tout, ok, fc),
            ins \o RunCall(ok)
                \o GetOutputCalls(ModelRunInference(tout, ok, fc)),
            Report(ModelRunInference(tout, ok, fc)))

\* Faulty variant: a failed inference resets the history buffer.
runForecast_ResetsOnFailure(r, ins, tout, ok, fc) ==
    IF ~ok
    THEN Outcome(EmptyRing, ModelRunInference(tout, ok, fc),
                 ins \o RunCall(ok), NoForecast("failed"))
    ELSE Outcome(r, ModelRunInference(tout, ok, fc),
                 ins \o RunCall(ok)
                     \o GetOutputCalls(ModelRunInference(tout, ok, fc)),
                 Report(ModelRunInference(tout, ok, fc)))

\* Faulty variant: a failed inference is tried a second time.
runForecast_Retries(r, ins, tout, ok, fc) ==
    IF ~ok
    THEN Outcome(r, ModelRunInference(tout, ok, fc),
                 ins \o RunCall(ok) \o RunCall(ok),
                 NoForecast("failed"))
    ELSE Outcome(r, ModelRunInference(tout, ok, fc),
                 ins \o RunCall(ok)
                     \o GetOutputCalls(ModelRunInference(tout, ok, fc)),
                 Report(ModelRunInference(tout, ok, fc)))

\* runForecast() on ring r with the engine's output tensor tout.  `ins` is
\* what section 1, the input loop, did: SetInputCalls(r); `ok` and `fc`
\* are the result of ModelRunInference and the forecast it produces.
runForecast(r, ins, tout, ok, fc) ==
    IF ~ok
    THEN Outcome(r, ModelRunInference(tout, ok, fc),
                 ins \o RunCall(ok), NoForecast("failed"))
    ELSE Outcome(r, ModelRunInference(tout, ok, fc),
                 ins \o RunCall(ok)
                     \o GetOutputCalls(ModelRunInference(tout, ok, fc)),
                 Report(ModelRunInference(tout, ok, fc)))

\* ------------------------------------------------------- the environment
\* Forecasts the engine may produce (standardized values, as floats): pressure at
\* steps 0 and 59, temperature at step 59, and the humidity peak, placed
\* to land the denormalized values on either side of each threshold, in
\* a build that rounds the product and in one that fuses it.
Case(p0, p59, t59, hmax) == [p0 |-> p0, p59 |-> p59, t59 |-> t59, hmax |-> hmax]

ForecastCases ==
    { Case(-1074077551, -1078801526, -1055730546, -1068860259),
        \* 1011.2 to 1009.5 hPa, 60 %, 25 C
      Case(0, -1057469006, -1055730546, 0),
        \* delta just below -0.8
      Case(0, -1057468327, -1055730546, 0),
        \* delta just above -0.8
      Case(0, -1057468327, -1055730546, 1074673321),
        \* the same with 90 %
      Case(0, -1058580250, -1055730546, 0),
        \* delta -0.9
      Case(-1069967284, -1072746073, -1055730546, 1074673321),
        \* 1012.0 to 1011.5 hPa, 90 %
      Case(0, -1045140498, -1055730546, 1070515515),
        \* delta just below -0.3, just above 85 %
      Case(0, -1045137784, -1055730546, 1070515515),
        \* delta just above -0.3
      Case(0, -1045140498, -1055730546, 1070515507),
        \* exactly 85 %
      Case(0, -1045140498, -1055730546, 1070515514),
        \* 85 % when the product is rounded, just above when fused
      Case(0, 1051301870, -1055730546, 0),
        \* delta exactly 0.5
      Case(0, 1051303227, -1055730546, 0),
        \* delta just above 0.5
      Case(0, 1032297416, 1085587197, 0),
        \* 36.2 C, delta 0.1
      Case(0, 1032297416, -1094059744, 0),
        \* just below 5 C
      Case(0, 1032297416, -1094059743, 0),
        \* exactly 5 C when the product is rounded, just above when fused
      Case(0, 1032297416, 1084213965, 0),
        \* exactly 35 C
      Case(0, -1057469006, 1084213970, 1074673321),
        \* storm, rain and heat
      Case(NaN, NaN, NaN, NaN) }
        \* a forecast of not-a-numbers

\* The forecasts tried when the whole program runs: a storm, a rise, a
\* stable one with heat.
SystemCases ==
    { Case(-1074077551, -1078801526, -1055730546, -1068860259),
      Case(0, 1051303227, -1055730546, 0),
      Case(0, 1032297416, 1085587197, 0) }

\* The step at which a forecast has its humidity peak; elsewhere the
\* humidity is the mean one (standardized 0, 71.7 %), or the peak value
\* when that is lower.
PeakStep == 17

\* The 180 output values of a forecast, index step * FEATURES + f.
Forecast(c) ==
    [idx \in 0..(PREDICT_STEPS * FEATURES - 1) |->
        LET step == idx \div FEATURES
            f == idx % FEATURES
        IN  CASE f = 0 -> IF step = 59 THEN c.t59
                          ELSE IF isnan(c.t59) THEN NaN ELSE 0
              [] f = 1 -> IF step = PeakStep THEN c.hmax
                          ELSE IF isnan(c.hmax) THEN NaN
                          ELSE IF c.hmax < 0 THEN c.hmax ELSE 0
              [] f = 2 -> IF step = 0 THEN c.p0
                          ELSE IF step = 59 THEN c.p59
                          ELSE IF isnan(c.p0) THEN NaN ELSE 0]

Forecasts == {Forecast(c) : c \in ForecastCases}

SystemForecasts == {Forecast(c) : c \in SystemCases}

\* What the sensor returns for the n-th reading taken by loop():
\* temperature from 25 C, humidity from 75 %, pressure from 101100 Pa, each
\* a few float steps further per reading.  Every reading differs from the
\* others.
Sample(n) == <<1103626240 + 16 * n, 1117126656 + 32 * n, 1204123136 + 24 * n>>

\* The same reading with one or all of the three calls reporting NaN.
SensorReadings(n) ==
    { Sample(n),
      <<NaN, Sample(n)[2], Sample(n)[3]>>,
      <<Sample(n)[1], NaN, Sample(n)[3]>>,
      <<Sample(n)[1], Sample(n)[2], NaN>>,
      <<NaN, NaN, NaN>> }

\* bme.readPressure() / 100.0F
ToHPa(pa) == FDiv(pa, 1120403456)

Cost(b) == IF b THEN 1 ELSE 0

\* Time between two loop() checks: just over a period, half a period,
\* exactly a period, three periods.  The first two are the regular ones.
Nominal == <<0, 60001>>
Early == <<0, 30000>>
LoopDelays == { Nominal, Early, <<0, 60000>>, <<2, 48928>> }
Irregular(dt) == Cost(dt # Nominal /\ dt # Early)

\* Time millis() advances between the check and lastReadingTime = millis().
Lags == { <<0, 0>>, <<0, 1>> }

\* millis() when setup() returns (it waits for the serial port for as long
\* as it takes): soon after boot, or shortly before the counter wraps.
StartTimes == { <<0, 1500>>, <<65534, 31072>> }

\* Milliseconds as a plain number, saturating at 2^30.
Cap == Limb * 16384
Ms(d) == IF d[1] >= 16384 THEN Cap ELSE d[1] * Limb + d[2]
Later(e, d) == IF e + Ms(d) >= Cap THEN Cap ELSE e + Ms(d)

\* ------------------------------------------------------------- the state
VARIABLES
    pc,               \* "boot", "loop" (setup returned), "halted" (while(1))
    historyBuffer,    \* float historyBuffer[30][3]
    bufferHead,       \* int bufferHead
    bufferFilled,     \* bool bufferFilled
    lastReadingTime,  \* static unsigned long lastReadingTime of loop()
    clock,            \* what millis() returned last
    tensorOut,        \* the engine's output tensor (ModelGetOutput)
    calls,            \* calls to the collaborators made by the last handler
    result,           \* how the last handler ended and what it reported
    inserted,         \* history: every reading passed to addReading, in order
    elapsed,          \* history: real ms since lastReadingTime was last set
    waited,           \* history: the value of elapsed at the check that
                      \* started the latest cycle of loop()
    loops,            \* loop() invocations so far
    faults            \* irregular inputs so far

vars ==
    <<pc, historyBuffer, bufferHead, bufferFilled, lastReadingTime, clock,
      tensorOut, calls, result, inserted, elapsed, waited, loops, faults,
      fused>>

TheRing == Ring(historyBuffer, bufferHead, bufferFilled)

ZeroTensor == [i \in 0..(PREDICT_STEPS * FEATURES - 1) |-> 0]

Boot(at) ==
    /\ pc = at
    /\ historyBuffer = EmptyRing.historyBuffer
    /\ bufferHead = 0
    /\ bufferFilled = FALSE
    /\ lastReadingTime = <<0, 0>>
    /\ clock = <<0, 0>>
    /\ tensorOut = ZeroTensor
    /\ calls = <<>>
    /\ result = NoForecast("boot")
    /\ inserted = <<>>
    /\ elapsed = 0
    /\ waited = 0
    /\ loops = 0
    /\ faults = 0
    /\ fused \in BOOLEAN

Init == Boot("boot")

\* Faulty variant: a failed initialisation is reported and setup() goes on to loop().
Halt_Returns(kind, cs) ==
    /\ pc' = "loop"
    /\ calls' = cs
    /\ result' = NoForecast(kind)
    /\ UNCHANGED <<historyBuffer, bufferHead, bufferFilled, lastReadingTime,
                   clock, tensorOut, inserted, elapsed, waited, loops,
                   faults>>

\* while(1); after a failed initialisation.
Halt(kind, cs) ==
    /\ pc' = "halted"
    /\ calls' = cs
    /\ result' = NoForecast(kind)
    /\ UNCHANGED <<historyBuffer, bufferHead, bufferFilled, lastReadingTime,
                   clock, tensorOut, inserted, elapsed, waited, loops,
                   faults>>

\* The state a handler leaves after runForecast() on ring r, having made
\* the calls cs before it.
Forecasted(r, ins, cs, ok, fc) ==
    \E out \in {runForecast(r, ins, tensorOut, ok, fc)} :
        /\ historyBuffer' = out.ring.historyBuffer
        /\ bufferHead' = out.ring.bufferHead
        /\ bufferFilled' = out.ring.bufferFilled
        /\ tensorOut' = out.tensorOut
        /\ calls' = cs \o out.calls
        /\ result' = out.result

\* runForecast() with every result the engine may give, among forecasts fcs.
Forecasting(r, cs, fcs) ==
    \E ins \in {SetInputCalls(r)} :
        \E ok \in BOOLEAN :
            IF ok THEN \E fc \in fcs : Forecasted(r, ins, cs, TRUE, fc)
            ELSE Forecasted(r, ins, cs, FALSE, tensorOut)

\* The addReading calls of the prefill loop.
PrefillCalls == [i \in 1..30 |-> Call("addReading", i - 1, 0)]

PrefillReadings == [i \in 1..30 |-> prefillData[i]]

\* setup(): the sensor at 0x76 or 0x77, the engine, the prefill and the
\* initial forecast.
Setup ==
    /\ pc = "boot"
    /\ UNCHANGED fused
    /\ \E b76 \in BOOLEAN, b77 \in BOOLEAN :
          LET begin == IF b76 THEN <<Call("bme.begin", 118, 1)>>
                       ELSE <<Call("bme.begin", 118, 0),
                              Call("bme.begin", 119, Cost(b77))>>
          IN  IF ~b76 /\ ~b77
              THEN Halt("no_sensor", begin)
              ELSE /\ b76 => b77
                   /\ \E init \in BOOLEAN :
                         IF ~init
                         THEN Halt("no_model", begin \o <<Call("ModelInit", 0, 0)>>)
                         ELSE \E start \in StartTimes :
                                 /\ pc' = "loop"
                                 /\ Forecasting(Prefill(TheRing, 1),
                                                begin \o <<Call("ModelInit", 0, 1)>>
                                                      \o PrefillCalls,
                                                SystemForecasts)
                                 /\ inserted' = inserted \o PrefillReadings
                                 /\ clock' = start
                                 /\ elapsed' = Ms(start)
                                 /\ UNCHANGED <<lastReadingTime, waited, loops,
                                                faults>>

\* Faulty variant: a cycle skipped for a NaN temperature stops the program.
Skip_Halts(reads) ==
    /\ pc' = "halted"
    /\ calls' = reads
    /\ result' = NoForecast("skipped")
    /\ UNCHANGED <<historyBuffer, bufferHead, bufferFilled, tensorOut, inserted>>

\* if (isnan(t)) return;
Skip(reads) ==
    /\ pc' = "loop"
    /\ calls' = reads
    /\ result' = NoForecast("skipped")
    /\ UNCHANGED <<historyBuffer, bufferHead, bufferFilled, tensorOut, inserted>>

\* Faulty variant: the time of the last cycle moves on by one period, so that
\* missed periods are caught up.
Stamp_CatchUp(last, t) == U32Add(last, <<0, PERIOD>>)

\* lastReadingTime = millis();
Stamp(last, t) == t

\* loop(): the elapsed-time check, the three sensor reads, the NaN test,
\* addReading and runForecast.
Loop ==
    /\ pc = "loop"
    /\ UNCHANGED fused
    /\ loops < MaxLoops
    /\ loops' = loops + 1
    /\ \E dt \in LoopDelays :
          LET now == U32Add(clock, dt)
          IN  IF ~ExceedsPeriod(U32Sub(now, lastReadingTime))
              THEN /\ faults + Irregular(dt) <= MaxFaults
                   /\ faults' = faults + Irregular(dt)
                   /\ pc' = "loop"
                   /\ clock' = now
                   /\ elapsed' = Later(elapsed, dt)
                   /\ calls' = <<>>
                   /\ result' = NoForecast("idle")
                   /\ UNCHANGED <<historyBuffer, bufferHead, bufferFilled,
                                  lastReadingTime, tensorOut, inserted, waited>>
              ELSE \E lag \in Lags, s \in SensorReadings(Len(inserted)) :
                      LET t == s[1]
                          h == s[2]
                          p == ToHPa(s[3])
                          cost == Irregular(dt) + Cost(lag # <<0, 0>>)
                                    + Cost(s # Sample(Len(inserted)))
                          reads == <<Call("readTemperature", 0, t),
                                     Call("readHumidity", 0, h),
                                     Call("readPressure", 0, s[3])>>
                      IN  /\ faults + cost <= MaxFaults
                          /\ faults' = faults + cost
                          /\ lastReadingTime' = Stamp(lastReadingTime, U32Add(now, lag))
                          /\ clock' = U32Add(now, lag)
                          /\ elapsed' = 0
                          /\ waited' = Later(elapsed, dt)
                          /\ IF isnan(t)
                             THEN Skip(reads)
                             ELSE /\ pc' = "loop"
                                  /\ inserted' = Append(inserted, <<t, h, p>>)
                                  /\ Forecasting(
                                       addReading(TheRing, t, h, p),
                                       reads \o <<Call("addReading", bufferHead, 0)>>,
                                       SystemForecasts)

Next == Setup \/ Loop

Spec == Init /\ [][Next]_vars

\* ------------------------------------------- the two functions on their own
\* addReading and runForecast called directly, in any order, from the
\* empty buffer: this reaches every head position before and after the
\* buffer fills, and every forecast of ForecastCases.
InitUnit == Boot("unit")

UnitAddReading ==
    /\ pc = "unit"
    /\ UNCHANGED fused
    /\ Len(inserted) < MaxReadings
    /\ \E s \in {Sample(Len(inserted))} :
          \E r \in {addReading(TheRing, s[1], s[2], ToHPa(s[3]))} :
             /\ historyBuffer' = r.historyBuffer
             /\ bufferHead' = r.bufferHead
             /\ bufferFilled' = r.bufferFilled
             /\ inserted' = Append(inserted, <<s[1], s[2], ToHPa(s[3])>>)
             /\ calls' = <<Call("addReading", bufferHead, 0)>>
             /\ result' = NoForecast("added")
             /\ UNCHANGED <<pc, lastReadingTime, clock, tensorOut, elapsed,
                            waited, loops, faults>>

UnitRunForecast ==
    /\ pc = "unit"
    /\ UNCHANGED fused
    /\ Forecasting(TheRing, <<>>, Forecasts)
    /\ UNCHANGED <<pc, lastReadingTime, clock, inserted, elapsed, waited,
                   loops, faults>>

NextUnit == UnitAddReading \/ UnitRunForecast

SpecUnit == InitUnit /\ [][NextUnit]_vars

\* ------------------------------------------------------------ the claims
\* The reading that is i-th oldest (i = 0..N-1) among the last N added.
Recent(i) == inserted[Len(inserted) - HISTORY_STEPS + i + 1]

\* C1: once N = 30 or more readings have been added, the window
\* runForecast reads (slots (readIdx + i) % N for i = 0..N-1) is the last
\* N readings added, in the order they were added, oldest first, wherever
\* bufferHead is; the input values runForecast hands to the engine are
\* those readings, standardized, in that order.
C1_WindowIsLastN ==
    Len(inserted) >= HISTORY_STEPS =>
        /\ \A i \in 0..(HISTORY_STEPS - 1), f \in 0..(FEATURES - 1) :
              historyBuffer[BufPos(TheRing, i)][f] = Recent(i)[f + 1]
        /\ result.kind \in {"reported", "failed"} =>
              \A k \in 1..(HISTORY_STEPS * FEATURES) :
                  /\ calls[k].op = "ModelSetInput"
                  /\ calls[k].val
                       = Standardize(Recent((k - 1) \div FEATURES)
                                         [((k - 1) % FEATURES) + 1],
                                     (k - 1) % FEATURES)

\* More than N readings added, the head in the middle of the array, and a
\* forecast made from that window.
C1_Witness ==
    /\ Len(inserted) > HISTORY_STEPS
    /\ bufferHead > 0
    /\ result.kind = "reported"

\* Positions in a handler's calls cs of the calls to `op`.
PositionsIn(cs, op) == {k \in 1..Len(cs) : cs[k].op = op}

Positions(op) == PositionsIn(calls, op)

\* C2: ModelGetOutput is called only after a ModelRunInference that
\* returned success earlier in the same handler; when ModelRunInference
\* failed, no output is read and nothing is reported: no alert, no status,
\* no denormalized forecast value.
C2_OutputOnlyAfterSuccess ==
    \A runs \in {Positions("ModelRunInference")} :
    \A gets \in {Positions("ModelGetOutput")} :
        /\ \A g \in gets : \E r \in runs : r < g /\ calls[r].val = 1
        /\ (\E r \in runs : calls[r].val = 0) =>
              /\ gets = {}
              /\ result = NoForecast("failed")
        /\ result.kind # "reported" => result.alerts = {} /\ gets = {}

\* A cycle of loop() in which the engine failed.
C2_Witness ==
    /\ loops > 0
    /\ result.kind = "failed"
    /\ \E r \in Positions("ModelRunInference") : calls[r].val = 0

\* C3: whenever ModelRunInference is called, every one of the N * F = 90
\* input indices 0..89 has been written by a ModelSetInput call earlier in
\* the same handler.
C3_InputCompleteBeforeInvoke ==
    \A sets \in {Positions("ModelSetInput")} :
        \A r \in Positions("ModelRunInference") :
            {calls[k].idx : k \in {j \in sets : j < r}}
                = 0..(HISTORY_STEPS * FEATURES - 1)

\* A cycle of loop() that invoked the engine.
C3_Witness ==
    /\ loops > 0
    /\ Positions("ModelRunInference") # {}
    /\ Positions("ModelSetInput") # {}

\* C4: if any of the three sensor calls of a cycle returns not-a-number,
\* the cycle makes no addReading and no forecast, and no NaN is ever
\* stored in the history buffer.
C4_NaNSkipsInsert ==
    /\ \A i \in 0..(HISTORY_STEPS - 1), f \in 0..(FEATURES - 1) :
          ~isnan(historyBuffer[i][f])
    /\ (\E k \in Positions("readTemperature") \cup Positions("readHumidity")
                   \cup Positions("readPressure") : isnan(calls[k].val))
          => /\ Positions("addReading") = {}
             /\ Positions("ModelRunInference") = {}

\* C5: a cycle whose ModelRunInference fails reports nothing, and leaves
\* the history buffer exactly as the insert of that cycle (or the prefill
\* of setup) made it: the new reading in the slot at the old head, the
\* other slots as they were, the head advanced by one modulo N.
C5_FailureIsLocal ==
    [][ (result'.kind = "failed" /\ pc = "loop" =>
            /\ Len(inserted') = Len(inserted) + 1
            /\ historyBuffer' =
                 [historyBuffer EXCEPT ![bufferHead] =
                     [f \in 0..(FEATURES - 1) |-> inserted'[Len(inserted')][f + 1]]]
            /\ bufferHead' = (bufferHead + 1) % HISTORY_STEPS
            /\ bufferFilled' = (bufferFilled \/ bufferHead = HISTORY_STEPS - 1)
            /\ result'.alerts = {}
            /\ PositionsIn(calls', "ModelGetOutput") = {})
        /\ (result'.kind = "failed" /\ pc = "boot" =>
            /\ historyBuffer' =
                 [i \in 0..(HISTORY_STEPS - 1) |->
                     [f \in 0..(FEATURES - 1) |-> prefillData[i + 1][f + 1]]]
            /\ bufferHead' = 0
            /\ bufferFilled'
            /\ result'.alerts = {}) ]_vars

\* A cycle of loop() whose inference failed, with readings of loop() in
\* the buffer.
C5_Witness ==
    /\ result.kind = "failed"
    /\ bufferHead > 0
    /\ Len(inserted) > HISTORY_STEPS

\* C6: the program halts only when initialisation fails, before any
\* loop(); after a cycle that was skipped for a NaN reading or whose
\* inference failed, loop() goes on: a check that comes more than one
\* period after that cycle's start reads the sensors again and, when the
\* temperature is valid, inserts the reading and invokes the engine.  The
\* initial forecast of setup() leaves lastReadingTime at 0: after it, a
\* check at which millis() reads more than one period does the same.
C6_NoEscalation ==
    /\ [](pc = "halted" => loops = 0 /\ result.kind \in {"no_sensor", "no_model"})
    /\ [][ (pc = "loop" /\ result.kind \in {"skipped", "failed"}) =>
              /\ pc' = "loop"
              /\ IF result'.kind = "idle"
                 THEN IF loops >= 1 THEN elapsed' <= PERIOD
                      ELSE ~ExceedsPeriod(clock')
                 ELSE \A ts \in {PositionsIn(calls', "readTemperature")} :
                         /\ Cardinality(ts) = 1
                         /\ \A k \in ts : ~isnan(calls'[k].val) =>
                               /\ PositionsIn(calls', "addReading") # {}
                               /\ PositionsIn(calls', "ModelRunInference") # {} ]_vars

\* Two checks of loop(), each just over a period after the last: the first
\* cycle was skipped for a NaN reading, the second inserted and reported.
C6_Witness ==
    /\ loops = 2
    /\ faults = 1
    /\ clock = <<1, 55966>>
    /\ lastReadingTime = clock
    /\ Len(inserted) = HISTORY_STEPS + 1
    /\ result.kind = "reported"

\* C7: when ModelInit fails the program halts for good: nothing was or
\* will be inserted into the history buffer, no ModelSetInput,
\* ModelRunInference or ModelGetOutput call is made, no alert is produced.
C7_FatalInit ==
    /\ [](result.kind = "no_model" =>
            /\ pc = "halted"
            /\ inserted = <<>>
            /\ TheRing = EmptyRing
            /\ Positions("addReading") \cup Positions("ModelSetInput")
                 \cup Positions("ModelRunInference")
                 \cup Positions("ModelGetOutput") = {}
            /\ result.alerts = {})
    /\ [][pc = "halted" => pc' = "halted" /\ calls' = calls /\ result' = result
                           /\ inserted' = inserted]_vars

\* The program halted after ModelInit failed.
C7_Witness ==
    /\ pc = "halted"
    /\ result.kind = "no_model"
    /\ \E k \in Positions("ModelInit") : calls[k].val = 0

\* C8: a check of loop() runs at most one cycle (one read of the sensors)
\* however many periods have passed, and a cycle starts only when more
\* than 60000 ms have passed since the start of the cycle before it (or
\* since boot, for the first).
C8_NoAccumulation ==
    loops >= 1 /\ result.kind \in {"skipped", "failed", "reported"} =>
        /\ waited > PERIOD
        /\ Cardinality(Positions("readTemperature")) = 1
        /\ Cardinality(Positions("ModelRunInference")) <= 1

\* A cycle that started three periods after the one before it.
C8_Witness ==
    /\ loops >= 2
    /\ result.kind = "reported"
    /\ waited > 2 * PERIOD
    /\ waited < Cap

\* C9: every forecasting cycle calls ModelRunInference exactly once: the
\* initial one of setup() after the 30 prefill inserts, and every cycle of
\* loop() that inserted a reading after exactly that one insert; no
\* handler calls it twice, and no cycle of loop() inserts without calling
\* it afterwards.
C9_OneInferencePerCycle ==
    \A runs \in {Positions("ModelRunInference")} :
    \A adds \in {Positions("addReading")} :
        /\ Cardinality(runs) <= 1
        /\ result.kind \in {"reported", "failed"} <=> Cardinality(runs) = 1
        /\ \A a \in adds : \E r \in runs : a < r
        /\ Positions("readTemperature") # {} =>
              Cardinality(adds) = Cardinality(runs)
        /\ Positions("ModelInit") # {} /\ runs # {} =>
              Cardinality(adds) = HISTORY_STEPS

\* A cycle of loop() that inserted a reading and reported a forecast.
C9_Witness ==
    /\ loops > 0
    /\ Positions("addReading") # {}
    /\ Cardinality(Positions("ModelRunInference")) = 1
    /\ result.kind = "reported"

\* C10: STORM_WARNING is reported exactly when pressureDelta < -0.8,
\* strictly, whatever the humidity and the temperature of the forecast;
\* 1011.2 hPa now, 1009.5 hPa at step 59 and 60 % humidity give
\* STORM_WARNING and nothing else.  (-0.8 is not a float; the floats below
\* it are those at or below -0.800000012, bit pattern 0x3F4CCCCD.)
C10_StormBoundary ==
    result.kind = "reported" =>
        /\ "STORM_WARNING" \in result.alerts
              <=> (~isnan(result.pressureDelta)
                   /\ result.pressureDelta <= -1061997773)
        /\ (result.currentP = 1149029581 /\ result.futureP = 1149001728
              /\ result.maxH = 1114636288 /\ result.futureT = 1103626240)
              => result.alerts = {"STORM_WARNING"}

\* A forecast whose pressureDelta is the first reachable value below -0.8
\* (-13108 * 2^-14 = -0.80005) and that reported the storm.
C10_Witness ==
    /\ result.kind = "reported"
    /\ result.pressureDelta = -1061998592
    /\ "STORM_WARNING" \in result.alerts

\* Some step of the forecast in the output tensor has a denormalized
\* humidity above 85 %.
HumidAbove85 ==
    \E step \in 0..(PREDICT_STEPS - 1) : GtLit(Pred(tensorOut, step, 1), 85, 1)

\* C11: RAIN_LIKELY is reported exactly when pressureDelta < -0.3 and the
\* largest denormalized humidity of the 60 forecast steps is above 85 %,
\* both strictly; maxH is that largest humidity (no step exceeds it, and
\* it is the value of some step unless none is above 0); 1012.0 hPa at
\* step 0, 1011.5 hPa at step 59 and a 90 % peak give RAIN_LIKELY without
\* STORM_WARNING.  (The floats below -0.3 are those at or below
\* -0.300000012, bit pattern 0x3E99999A.)
C11_RainRule ==
    result.kind = "reported" =>
        /\ \A step \in 0..(PREDICT_STEPS - 1) :
              ~FGt(Pred(tensorOut, step, 1), result.maxH)
        /\ \/ result.maxH = 0
           \/ \E step \in 0..(PREDICT_STEPS - 1) :
                 Pred(tensorOut, step, 1) = result.maxH
        /\ "RAIN_LIKELY" \in result.alerts
              <=> /\ ~isnan(result.pressureDelta)
                  /\ result.pressureDelta <= -1050253722
                  /\ HumidAbove85
        /\ (result.currentP = 1149042688 /\ result.futureP = 1149034496
              /\ result.maxH = 1119092736)
              => /\ "RAIN_LIKELY" \in result.alerts
                 /\ "STORM_WARNING" \notin result.alerts

\* A forecast falling by 0.5 hPa whose humidity peaks at 90 % at a step
\* that is not the last: rain is reported, the storm is not.
C11_Witness ==
    /\ result.kind = "reported"
    /\ result.pressureDelta = -1056964608
    /\ result.maxH = 1119092736
    /\ ~GtLit(Pred(tensorOut, PREDICT_STEPS - 1, 1), 85, 1)
    /\ result.alerts = {"RAIN_LIKELY"}

\* C12: in a cycle of loop() that reported a forecast, the pressure taken
\* as "now" is the pressure of the reading the cycle has just inserted,
\* and pressureDelta is the forecast pressure of step 59 minus that
\* pressure.
C12_DeltaFromLiveReading ==
    (loops > 0 /\ result.kind = "reported") =>
        /\ result.currentP = inserted[Len(inserted)][3]
        /\ result.pressureDelta
             = FSub(result.futureP, inserted[Len(inserted)][3])

StatusLines == {"STATUS_RISING", "STATUS_STABLE"}

\* C13 as stated: in a cycle where any of STORM_WARNING, RAIN_LIKELY,
\* HEAT_ALERT or FREEZE_ALERT is reported, no status line is reported.
C13_NoStatusWithAnyAlert ==
    result.kind = "reported" =>
        (result.alerts \ StatusLines # {} => result.alerts \cap StatusLines = {})

\* C13, amended: the status line is left out exactly when STORM_WARNING or
\* RAIN_LIKELY is reported; HEAT_ALERT and FREEZE_ALERT do not keep it
\* out, so a forecast of 36.2 C with a pressure rise of 0.1 hPa reports
\* HEAT_ALERT together with the stable status.
C13_StatusOnlyYieldsToStormOrRain ==
    result.kind = "reported" =>
        /\ result.alerts \cap StatusLines = {}
              <=> result.alerts \cap {"STORM_WARNING", "RAIN_LIKELY"} # {}
        /\ (result.futureT = 1108397261 /\ result.pressureDelta = 1036828672)
              => result.alerts = {"HEAT_ALERT", "STATUS_STABLE"}
        /\ (/\ result.alerts \cap {"HEAT_ALERT", "FREEZE_ALERT"} # {}
            /\ result.alerts \cap {"STORM_WARNING", "RAIN_LIKELY"} = {})
              => result.alerts \cap StatusLines # {}

\* The forecast of 36.2 C with a rise of 0.1 hPa, reported with the heat
\* alert and the status.
C13_Witness ==
    /\ result.kind = "reported"
    /\ result.futureT = 1108397261
    /\ result.pressureDelta = 1036828672
    /\ "HEAT_ALERT" \in result.alerts
    /\ "STATUS_STABLE" \in result.alerts

\* C14: when neither STORM_WARNING nor RAIN_LIKELY is reported, exactly
\* one status line is: STATUS_RISING when pressureDelta > 0.5, strictly,
\* STATUS_STABLE otherwise (a rise of exactly 0.5 hPa is stable); when
\* STORM_WARNING or RAIN_LIKELY is reported, no status line is.
C14_StatusRule ==
    result.kind = "reported" =>
        IF "STORM_WARNING" \notin result.alerts /\ "RAIN_LIKELY" \notin result.alerts
        THEN /\ Cardinality(result.alerts \cap StatusLines) = 1
             /\ "STATUS_RISING" \in result.alerts
                   <=> (~isnan(result.pressureDelta)
                        /\ result.pressureDelta > 1056964608)
        ELSE result.alerts \cap StatusLines = {}

\* A forecast rising by exactly 0.5 hPa, reported as stable.
C14_Witness ==
    /\ result.kind = "reported"
    /\ result.pressureDelta = 1056964608
    /\ result.alerts = {"STATUS_STABLE"}

\* Whether the alert `a` is reported in the two forecasts of a step alike.
SameFlag(a) == (a \in result.alerts) <=> (a \in result'.alerts)

\* C15: each alert is decided by the inputs of its own rule, taken from
\* the forecast of the same cycle: STORM_WARNING by pressureDelta (step 59
\* minus step 0), RAIN_LIKELY by pressureDelta and the humidity peak,
\* HEAT_ALERT (> 35.0) and FREEZE_ALERT (< 5.0) by the temperature of step
\* 59, whatever was forecast or reported before; and of two forecasts made
\* one after the other, those that agree on a rule's inputs agree on its
\* alert, however the other rules' inputs differ.
C15_FlagsFromOwnInputs ==
    /\ [](result.kind = "reported" =>
            \A pd \in {FSub(Pred(tensorOut, 59, 2), Pred(tensorOut, 0, 2))},
               ft \in {Pred(tensorOut, 59, 0)} :
                /\ "STORM_WARNING" \in result.alerts <=> LtLit(pd, -8, 10)
                /\ "RAIN_LIKELY" \in result.alerts
                      <=> (LtLit(pd, -3, 10) /\ HumidAbove85)
                /\ "HEAT_ALERT" \in result.alerts <=> GtLit(ft, 35, 1)
                /\ "FREEZE_ALERT" \in result.alerts <=> LtLit(ft, 5, 1))
    /\ [][ (result.kind = "reported" /\ result'.kind = "reported") =>
              /\ result'.pressureDelta = result.pressureDelta
                    => SameFlag("STORM_WARNING")
              /\ (result'.pressureDelta = result.pressureDelta
                    /\ result'.maxH = result.maxH) => SameFlag("RAIN_LIKELY")
              /\ result'.futureT = result.futureT
                    => SameFlag("HEAT_ALERT") /\ SameFlag("FREEZE_ALERT") ]_vars

\* A forecast in which the storm, the rain and the heat rule fired
\* together.
C15_Witness ==
    /\ result.kind = "reported"
    /\ result.alerts = {"STORM_WARNING", "RAIN_LIKELY", "HEAT_ALERT"}

\* C16 as stated: when runForecast runs after K < N = 30 readings were
\* added, the window it hands to the engine is those K readings in the order
\* they were added and nothing else: every ModelSetInput value is the
\* standardized feature of an added reading, reading idx \div 3 of the K.
C16_PartialWindow ==
    (Len(inserted) < HISTORY_STEPS /\ result.kind \in {"reported", "failed"}) =>
        \A k \in Positions("ModelSetInput") :
            /\ calls[k].idx \div FEATURES < Len(inserted)
            /\ calls[k].val
                 = Standardize(inserted[(calls[k].idx \div FEATURES) + 1]
                                       [(calls[k].idx % FEATURES) + 1],
                               calls[k].idx % FEATURES)

\* C16, amended: when runForecast runs after K < N = 30 readings were added,
\* it still hands the engine a full window of N rows, 90 ModelSetInput calls
\* with indices 0..89. Rows 0..K-1 are the K added readings in the order they
\* were added; rows K..N-1 are the slots of the zero-initialised array that
\* were never written, standardized like readings.
C16_PartialWindowZeroPadded ==
    (Len(inserted) < HISTORY_STEPS /\ result.kind \in {"reported", "failed"}) =>
        /\ Cardinality(Positions("ModelSetInput")) = HISTORY_STEPS * FEATURES
        /\ {calls[k].idx : k \in Positions("ModelSetInput")}
             = 0..(HISTORY_STEPS * FEATURES - 1)
        /\ \A k \in Positions("ModelSetInput") :
              LET i == calls[k].idx \div FEATURES
                  f == calls[k].idx % FEATURES
              IN  calls[k].val
                    = IF i < Len(inserted)
                        THEN Standardize(inserted[i + 1][f + 1], f)
                        ELSE Standardize(0, f)

\* A forecast was reported after 1..29 readings, and the last row of its
\* input is a standardized zero, not a reading.
C16_Witness ==
    /\ Len(inserted) \in 1..(HISTORY_STEPS - 1)
    /\ result.kind = "reported"
    /\ \E k \in Positions("ModelSetInput") :
          /\ calls[k].idx = HISTORY_STEPS * FEATURES - 1
          /\ calls[k].val = Standardize(0, FEATURES - 1)
          /\ calls[k].val # Standardize(inserted[Len(inserted)][FEATURES], FEATURES - 1)

\* C17 as stated in the README: the storm alert is reported exactly when
\* the forecast pressure of step 59 minus that of step 0 is below -1.0 hPa.
C17_ReadmeStormRule ==
    result.kind = "reported" =>
        ("STORM_WARNING" \in result.alerts
            <=> (~isnan(result.pressureDelta)
                 /\ result.pressureDelta < -1065353216))

\* C17, amended: the storm alert is reported for every drop of more than
\* 1.0 hPa and also for the drops between 0.8 and 1.0 hPa that the README
\* leaves out; it is not reported for any drop of less than 0.8 hPa.
C17_StormBand ==
    (result.kind = "reported" /\ ~isnan(result.pressureDelta)) =>
        /\ result.pressureDelta < -1065353216
              => "STORM_WARNING" \in result.alerts
        /\ (result.pressureDelta >= -1065353216
              /\ result.pressureDelta <= -1061997773)
              => "STORM_WARNING" \in result.alerts
        /\ result.pressureDelta > -1061997773
              => "STORM_WARNING" \notin result.alerts

\* A forecast falling by 0.9 hPa, reported as a storm.
C17_Witness ==
    /\ result.kind = "reported"
    /\ result.pressureDelta = -1063675904
    /\ "STORM_WARNING" \in result.alerts

\* C18: a handler that fills the input tensor makes exactly 90
\* ModelSetInput calls, one for each index 0..89 and none outside; the
\* value at index i * 3 + f is (x - MEANS[f]) / STDS[f] for x the feature
\* f of the i-th oldest of the last 30 readings added, and of no other
\* reading or feature.
C18_RowMajorInput ==
    \A sets \in {Positions("ModelSetInput")} :
        sets # {} =>
            /\ Cardinality(sets) = HISTORY_STEPS * FEATURES
            /\ {calls[k].idx : k \in sets} = 0..(HISTORY_STEPS * FEATURES - 1)
            /\ \A k \in sets :
                  calls[k].val
                    = FDiv(FSub(Recent(calls[k].idx \div FEATURES)
                                      [(calls[k].idx % FEATURES) + 1],
                                MEANS[calls[k].idx % FEATURES]),
                           STDS[calls[k].idx % FEATURES])

\* A cycle of loop() that filled the input tensor from a window that
\* wraps around the end of the array.
C18_Witness ==
    /\ loops > 0
    /\ bufferHead > 0
    /\ Cardinality(Positions("ModelSetInput")) = HISTORY_STEPS * FEATURES
    /\ \E k \in Positions("ModelSetInput") :
          calls[k].idx = HISTORY_STEPS * FEATURES - 1
            /\ calls[k].val = Standardize(inserted[Len(inserted)][3], 2)

\* C19: bufferHead is always within 0..N-1, and bufferFilled is true
\* exactly from the N-th reading on; a step that adds a reading writes it
\* into the slot at the old bufferHead, leaves the other N-1 slots and the
\* engine's tensor as they were and advances bufferHead by one modulo N;
\* no step changes the buffer otherwise or resets bufferFilled.
C19_InsertFrame ==
    /\ [](/\ bufferHead \in 0..(HISTORY_STEPS - 1)
          /\ bufferFilled <=> Len(inserted) >= HISTORY_STEPS)
    /\ [][ /\ Len(inserted') = Len(inserted) + 1 =>
                /\ historyBuffer' =
                     [historyBuffer EXCEPT ![bufferHead] =
                         [f \in 0..(FEATURES - 1) |->
                             inserted'[Len(inserted')][f + 1]]]
                /\ \A i \in 0..(HISTORY_STEPS - 1) \ {bufferHead} :
                      historyBuffer'[i] = historyBuffer[i]
                /\ bufferHead' = (bufferHead + 1) % HISTORY_STEPS
                /\ bufferFilled' = (bufferFilled \/ bufferHead' = 0)
                /\ tensorOut' = tensorOut
           /\ Len(inserted') = Len(inserted) =>
                /\ historyBuffer' = historyBuffer
                /\ bufferHead' = bufferHead
           /\ bufferFilled => bufferFilled' ]_vars

\* The reading after the one that wrapped the head: 31 readings added,
\* the head at slot 1, the newest reading in slot 0.
C19_Witness ==
    /\ result.kind = "added"
    /\ Len(inserted) = HISTORY_STEPS + 1
    /\ bufferHead = 1
    /\ bufferFilled
    /\ historyBuffer[0][0] = inserted[Len(inserted)][1]

\* C20: in the program, whenever a handler has called ModelRunInference,
\* bufferFilled is true, at least N = 30 readings have been added (the
\* 30 of the prefill come before the first forecast), and every slot of
\* the history buffer holds a reading that was added.
C20_NoPartialWindow ==
    Positions("ModelRunInference") # {} =>
        /\ bufferFilled
        /\ Len(inserted) >= HISTORY_STEPS
        /\ Cardinality(Positions("ModelSetInput")) = HISTORY_STEPS * FEATURES
        /\ \A i \in 0..(HISTORY_STEPS - 1) :
              \E j \in (Len(inserted) - HISTORY_STEPS + 1)..Len(inserted) :
                  \A f \in 0..(FEATURES - 1) :
                      historyBuffer[i][f] = inserted[j][f + 1]

\* The initial forecast of setup(), made right after the 30 prefill
\* readings wrapped the head back to slot 0.
C20_Witness ==
    /\ pc = "loop"
    /\ loops = 0
    /\ Positions("ModelRunInference") # {}
    /\ Cardinality(Positions("addReading")) = HISTORY_STEPS
    /\ Len(inserted) = HISTORY_STEPS
    /\ bufferHead = 0
    /\ bufferFilled

\* The real time, in ms, between the stamp lastReadingTime = millis() of
\* the cycle before (boot, when there was none) and the check loop() has
\* just made; Cap stands for 2^30 ms or more.
GapAtCheck == IF result'.kind = "idle" THEN elapsed' ELSE waited'

\* C21: a check of loop() starts a cycle exactly when more than 60000 ms
\* have really passed since lastReadingTime was stamped, whether or not
\* the 32-bit millis() wrapped to 0 in between; and a first check made
\* while millis() has not yet wrapped since boot, however close to 2^32
\* it reads, starts the first cycle.
C21_TickSurvivesWrap ==
    [][ (pc = "loop" /\ loops' = loops + 1) =>
          /\ GapAtCheck < Cap =>
                (result'.kind # "idle" <=> GapAtCheck > PERIOD)
          /\ (GapAtCheck = Cap /\ lastReadingTime = <<0, 0>>
                /\ clock'[1] >= 16384) => result'.kind # "idle" ]_vars

\* A cycle that started 60001 ms after the one before it, with millis()
\* having wrapped to 0 in between: it reads less than the time waited.
C21_Witness ==
    /\ loops >= 2
    /\ result.kind = "reported"
    /\ waited = PERIOD + 1
    /\ clock[1] = 0
    /\ clock[2] < waited
    /\ lastReadingTime = clock

====
